---- MODULE Spec2Model ----
(***************************************************************************)
(* Model of the sensor ingestion server of src/main.go.                    *)
(*                                                                         *)
(* src/main.go holds two revisions of the program.  Lines 158-342 are the  *)
(* revision with parseData and the multipart fallback; lines 1-156 are the *)
(* revision that parses the payload inline in postSensorData.              *)
(*                                                                         *)
(* Strings are sequences of one-character strings, so that strings.Split,  *)
(* strings.NewReplacer(...).Replace, strconv.ParseInt and                  *)
(* strconv.ParseFloat are computed character by character.                 *)
(***************************************************************************)
EXTENDS Integers, Sequences, FiniteSets, TLC

(***************************************************************************)
(* Bounds of the model.                                                    *)
(***************************************************************************)
\* Number of requests in flight at once (one goroutine per connection).
MaxReqs == 2
\* Stand-in for the bitSize 64 of strconv.ParseInt(s, 10, 64): the range of
\* the timestamp is -2^(IntBits-1) .. 2^(IntBits-1)-1.
IntBits == 8
\* Stand-in for the range of float64: a decimal with more than
\* FloatMaxDigits integer digits is out of range (float64: 309 digits).
FloatMaxDigits == 4

(***************************************************************************)
(* Characters and strings.                                                 *)
(***************************************************************************)
Digits == <<"0", "1", "2", "3", "4", "5", "6", "7", "8", "9">>

IsDigit(c) == \E i \in 1..Len(Digits) : Digits[i] = c

DigitVal(c) == (CHOOSE i \in 1..Len(Digits) : Digits[i] = c) - 1

RECURSIVE Pow10(_)
Pow10(n) == IF n = 0 THEN 1 ELSE 10 * Pow10(n - 1)

RECURSIVE Pow2(_)
Pow2(n) == IF n = 0 THEN 1 ELSE 2 * Pow2(n - 1)

\* The characters strings.NewReplacer(" ", "", "\t", "", "\n", "", "\r", "",
\* "\x00", "") deletes; "NUL" stands for the one character \x00.
StripChars == {" ", "\t", "\n", "\r", "NUL"}

\* replacer.Replace(data): every occurrence of a listed character is deleted.
Replace(s) == SelectSeq(s, LAMBDA c : c \notin StripChars)

\* Index of the first occurrence of character sep in s, 0 when there is none.
IndexOf(s, sep) ==
    IF \E i \in 1..Len(s) : s[i] = sep
    THEN CHOOSE i \in 1..Len(s) : s[i] = sep /\ \A j \in 1..(i - 1) : s[j] # sep
    ELSE 0

\* strings.Split(s, sep) for a one-character sep: n separators give n+1
\* segments; the empty string gives one empty segment.
RECURSIVE Split(_, _)
Split(s, sep) ==
    LET i == IndexOf(s, sep)
    IN  IF i = 0 THEN <<s>>
        ELSE <<SubSeq(s, 1, i - 1)>> \o Split(SubSeq(s, i + 1, Len(s)), sep)

(***************************************************************************)
(* strconv.ParseInt(s, 10, 64) and strconv.ParseFloat(s, 64), as called by *)
(* parseData.  Each returns a value and an error; on a syntax error the    *)
(* value is 0, on a range error it is the nearest representable value.     *)
(***************************************************************************)
RECURSIVE DigitsVal(_)
DigitsVal(s) ==
    IF Len(s) = 0 THEN 0
    ELSE 10 * DigitsVal(SubSeq(s, 1, Len(s) - 1)) + DigitVal(s[Len(s)])

AllDigits(s) == \A i \in 1..Len(s) : IsDigit(s[i])

\* Largest and smallest timestamp: 1<<(bitSize-1) - 1 and -(1<<(bitSize-1)).
MaxInt == Pow2(IntBits - 1) - 1
MinInt == 0 - Pow2(IntBits - 1)

ParseIntZeroOnRange(s) ==
    IF Len(s) = 0 THEN [val |-> 0, err |-> "syntax"]
    ELSE LET neg  == s[1] = "-"
             body == IF s[1] \in {"+", "-"} THEN Tail(s) ELSE s
         IN  IF Len(body) = 0 \/ ~AllDigits(body)
             THEN [val |-> 0, err |-> "syntax"]
             ELSE LET un == DigitsVal(body)
                  IN  IF (~neg /\ un >= MaxInt + 1) \/ (neg /\ un > MaxInt + 1)
                      THEN [val |-> 0, err |-> "range"]
                      ELSE [val |-> IF neg THEN 0 - un ELSE un, err |-> "nil"]

ParseInt(s) ==
    IF Len(s) = 0 THEN [val |-> 0, err |-> "syntax"]
    ELSE LET neg  == s[1] = "-"
             body == IF s[1] \in {"+", "-"} THEN Tail(s) ELSE s
         IN  IF Len(body) = 0 \/ ~AllDigits(body)
             THEN [val |-> 0, err |-> "syntax"]
             ELSE LET un == DigitsVal(body)
                  IN  IF ~neg /\ un >= MaxInt + 1
                      THEN [val |-> MaxInt, err |-> "range"]
                      ELSE IF neg /\ un > MaxInt + 1
                      THEN [val |-> MinInt, err |-> "range"]
                      ELSE [val |-> IF neg THEN 0 - un ELSE un, err |-> "nil"]

\* A float64 value: a finite decimal m * 10^e (e <= 0, m not a multiple of
\* 10 unless e = 0), or an infinity (m = 1 or -1).
Fin(m, e) == [kind |-> "fin", m |-> m, e |-> e]
Inf(sign) == [kind |-> "inf", m |-> sign, e |-> 0]
Zero == Fin(0, 0)

RECURSIVE Normalize(_, _)
Normalize(m, e) ==
    IF m = 0 THEN Fin(0, 0)
    ELSE IF e < 0 /\ m % 10 = 0 THEN Normalize(m \div 10, e + 1)
    ELSE Fin(m, e)

RECURSIVE StripLeadingZeros(_)
StripLeadingZeros(s) ==
    IF Len(s) > 0 /\ s[1] = "0" THEN StripLeadingZeros(Tail(s)) ELSE s

ParseFloat(s) ==
    IF Len(s) = 0 THEN [val |-> Zero, err |-> "syntax"]
    ELSE LET neg  == s[1] = "-"
             body == IF s[1] \in {"+", "-"} THEN Tail(s) ELSE s
             dot  == IndexOf(body, ".")
             ip   == IF dot = 0 THEN body ELSE SubSeq(body, 1, dot - 1)
             fp   == IF dot = 0 THEN <<>> ELSE SubSeq(body, dot + 1, Len(body))
         IN  IF Len(ip) + Len(fp) = 0 \/ ~AllDigits(ip) \/ ~AllDigits(fp)
             THEN [val |-> Zero, err |-> "syntax"]
             ELSE IF Len(StripLeadingZeros(ip)) > FloatMaxDigits
             THEN [val |-> Inf(IF neg THEN -1 ELSE 1), err |-> "range"]
             ELSE LET mag == DigitsVal(ip \o fp)
                  IN  [val |-> Normalize(IF neg THEN 0 - mag ELSE mag, 0 - Len(fp)),
                       err |-> "nil"]

(***************************************************************************)
(* parseData (src/main.go 250-270).  An index out of range panics; the     *)
(* deferred recover() turns the panic into err, and the named results keep *)
(* what was assigned before the panic.  Conversion errors are discarded.   *)
(***************************************************************************)
\* The named results as the assignments of lines 258-265 leave them: an
\* assignment that is not reached, because an earlier index panicked,
\* leaves the zero value.
AssignedSwapped(data) ==
    LET bodyArr == Split(data, "|")
        n       == Len(bodyArr)
        acc     == IF n >= 4 THEN Split(bodyArr[4], ",") ELSE <<>>
        k       == Len(acc)
    IN  [timestamp |-> ParseInt(bodyArr[1]).val,
         hum  |-> IF n >= 2 THEN ParseFloat(bodyArr[2]).val ELSE Zero,
         temp |-> IF n >= 3 THEN ParseFloat(bodyArr[3]).val ELSE Zero,
         x    |-> IF k >= 1 THEN ParseFloat(acc[1]).val ELSE Zero,
         y    |-> IF k >= 3 THEN ParseFloat(acc[3]).val ELSE Zero,
         z    |-> IF k >= 2 THEN ParseFloat(acc[2]).val ELSE Zero]

Assigned(data) ==
    LET bodyArr == Split(data, "|")
        n       == Len(bodyArr)
        acc     == IF n >= 4 THEN Split(bodyArr[4], ",") ELSE <<>>
        k       == Len(acc)
    IN  [timestamp |-> ParseInt(bodyArr[1]).val,
         hum  |-> IF n >= 2 THEN ParseFloat(bodyArr[2]).val ELSE Zero,
         temp |-> IF n >= 3 THEN ParseFloat(bodyArr[3]).val ELSE Zero,
         x    |-> IF k >= 1 THEN ParseFloat(acc[1]).val ELSE Zero,
         y    |-> IF k >= 2 THEN ParseFloat(acc[2]).val ELSE Zero,
         z    |-> IF k >= 3 THEN ParseFloat(acc[3]).val ELSE Zero]

\* Whether bodyArr[1], bodyArr[2], bodyArr[3], acc[1] or acc[2] (Go indices)
\* is out of range, which panics.
Panics(data) ==
    LET bodyArr == Split(data, "|")
    IN  Len(bodyArr) < 4 \/ Len(Split(bodyArr[4], ",")) < 3

WithErr(a, err) ==
    [timestamp |-> a.timestamp, hum |-> a.hum, temp |-> a.temp,
     x |-> a.x, y |-> a.y, z |-> a.z, err |-> err]

parseDataNoRecover(data) == WithErr(Assigned(data), "nil")

parseData(data) ==
    WithErr(Assigned(data), IF Panics(data) THEN "error parsing data" ELSE "nil")

(***************************************************************************)
(* The payloads the sensors send (spec section 6, the wire format          *)
(* "<unix_ts>|<humidity>|<temperature>|<x>,<y>,<z>"), built from the       *)
(* values a sensor means to send.  A generator g says which six values,    *)
(* which field (pos, 0 for none) is replaced by the raw token tok, how     *)
(* many '|'-segments (np) and ','-segments (nc) the payload has, and       *)
(* whether whitespace and NUL characters are scattered in it (ws).         *)
(***************************************************************************)
RECURSIVE NatToDigits(_)
NatToDigits(n) ==
    IF n < 10 THEN <<Digits[n + 1]>>
    ELSE NatToDigits(n \div 10) \o <<Digits[(n % 10) + 1]>>

RECURSIVE PadDigits(_, _)
PadDigits(n, w) ==
    IF w = 0 THEN <<>> ELSE PadDigits(n \div 10, w - 1) \o <<Digits[(n % 10) + 1]>>

FormatInt(n) == IF n < 0 THEN <<"-">> \o NatToDigits(0 - n) ELSE NatToDigits(n)

FormatFloat(v) ==
    LET mag   == IF v.m < 0 THEN 0 - v.m ELSE v.m
        scale == Pow10(0 - v.e)
        sign  == IF v.m < 0 THEN <<"-">> ELSE <<>>
    IN  IF v.e = 0 THEN sign \o NatToDigits(mag)
        ELSE sign \o NatToDigits(mag \div scale) \o <<".">> \o PadDigits(mag % scale, 0 - v.e)

RECURSIVE Join(_, _)
Join(segs, sep) ==
    IF Len(segs) = 0 THEN <<>>
    ELSE IF Len(segs) = 1 THEN segs[1]
    ELSE segs[1] \o <<sep>> \o Join(Tail(segs), sep)

RECURSIVE Scatter(_)
Scatter(s) ==
    IF Len(s) = 0 THEN <<"NUL", "\n">>
    ELSE IF s[1] = "|" THEN <<" ", "|", "\t">> \o Scatter(Tail(s))
    ELSE IF s[1] = "," THEN <<",", "\r", " ">> \o Scatter(Tail(s))
    ELSE <<s[1]>> \o Scatter(Tail(s))

FieldText(g, p) ==
    IF g.pos = p THEN g.tok
    ELSE IF p = 1 THEN FormatInt(g.vals[1]) ELSE FormatFloat(g.vals[p])

Build(g) ==
    LET accAll  == <<FieldText(g, 4), FieldText(g, 5), FieldText(g, 6), <<"9">> >>
        acc     == Join(SubSeq(accAll, 1, g.nc), ",")
        segsAll == <<FieldText(g, 1), FieldText(g, 2), FieldText(g, 3), acc, <<"8">> >>
        plain   == Join(SubSeq(segsAll, 1, g.np), "|")
    IN  IF g.ws THEN Scatter(plain) ELSE plain

Gen(vals, pos, tok, np, nc, ws) ==
    [vals |-> vals, pos |-> pos, tok |-> tok, np |-> np, nc |-> nc, ws |-> ws]

\* The values of the example payloads: 7|1.5|-2|0.25|3|9.81
BaseVals == <<7, Fin(15, -1), Fin(-2, 0), Fin(25, -2), Fin(3, 0), Fin(981, -2)>>

TsValues == {MinInt, -1, 0, MaxInt}
FloatValues == {Zero, Fin(15, -1), Fin(-305, -2)}

\* Raw tokens put in place of one field: not numbers at all, numbers in
\* another spelling, numbers out of range.
SyntaxTokens == {<<>>, <<"g">>, <<"1", "g">>, <<"-">>, <<".">>, <<"-", "-", "1">>}
SpelledTokens == {<<"+", "5">>, <<"0", "0", "7">>}
FloatOnlyTokens == {<<"1", ".", "5", "0">>, <<".", "5">>, <<"5", ".">>}
RangeTokens == {<<"9", "9", "9", "9", "9", "9">>, <<"-", "9", "9", "9", "9", "9", "9">>}
Tokens == SyntaxTokens \cup SpelledTokens \cup FloatOnlyTokens \cup RangeTokens

WellFormedGens ==
    { Gen(<<ts, h, t, x, y, z>>, 0, <<>>, 4, 3, ws) :
        ts \in TsValues, h \in FloatValues, t \in FloatValues,
        x \in FloatValues, y \in FloatValues, z \in FloatValues, ws \in BOOLEAN }

DeviantGens ==
    { Gen(BaseVals, pos, tok, np, nc, FALSE) :
        pos \in 1..6, tok \in Tokens, np \in 1..5, nc \in 1..4 }

(***************************************************************************)
(* Requests.  A request is its method, its path, what net/http makes of    *)
(* its encoding, and the form fields its body carries: data and node are   *)
(* lists of values as in url.Values and multipart.Form.Value, empty when   *)
(* the field is absent.                                                    *)
(*   bodyNil  r.Body == nil (a request built without a body)               *)
(*   ct       the Content-Type: "urlencoded", "multipart", or "invalid"    *)
(*            (one mime.ParseMediaType rejects)                            *)
(*   bodyOK   the body decodes in the encoding ct names                    *)
(*   queryOK  url.ParseQuery accepts r.URL.RawQuery                        *)
(***************************************************************************)
NoGen == Gen(BaseVals, 0, <<>>, 4, 3, FALSE)

Request(method, path, bodyNil, ct, bodyOK, queryOK, data, node, gen) ==
    [method |-> method, path |-> path, bodyNil |-> bodyNil, ct |-> ct,
     bodyOK |-> bodyOK, queryOK |-> queryOK, data |-> data, node |-> node,
     gen |-> gen]

\* A POST /api with a payload built by generator g.
Post(ct, bodyOK, queryOK, g, node) ==
    Request("POST", "/api", FALSE, ct, bodyOK, queryOK, <<Build(g)>>, node, g)

\* A request without the data field.
Bare(method, path, bodyNil, ct, bodyOK, queryOK) ==
    Request(method, path, bodyNil, ct, bodyOK, queryOK, <<>>, <<>>, NoGen)

\* The request of a connection that has read none yet.
NoRequestIn == Bare("GET", "/", FALSE, "urlencoded", TRUE, TRUE)

NodeFields == {<<>>, <<"">>, <<"n1">>}

GoodGen == Gen(BaseVals, 0, <<>>, 4, 3, TRUE)
GarbageGen == Gen(BaseVals, 1, <<"g", "a", "r", "b", "a", "g", "e">>, 1, 1, FALSE)
ShortGen == Gen(BaseVals, 0, <<>>, 4, 2, FALSE)
BadFieldGen == Gen(BaseVals, 2, <<"g">>, 4, 3, FALSE)
RangeGen == Gen(BaseVals, 3, <<"9", "9", "9", "9", "9", "9">>, 4, 3, FALSE)

\* The requests the server is sent.
Requests ==
    { Bare("GET", "/", FALSE, "urlencoded", TRUE, TRUE),
      Bare("POST", "/", FALSE, "urlencoded", TRUE, TRUE),
      Bare("GET", "/x", FALSE, "urlencoded", TRUE, TRUE),
      Bare("GET", "/api", FALSE, "urlencoded", TRUE, TRUE),
      Bare("POST", "/api", TRUE, "urlencoded", TRUE, TRUE),
      Bare("POST", "/api", FALSE, "urlencoded", TRUE, TRUE),
      Bare("POST", "/api", FALSE, "urlencoded", FALSE, TRUE),
      Bare("POST", "/api", FALSE, "invalid", TRUE, TRUE),
      Bare("POST", "/api", FALSE, "multipart", FALSE, FALSE),
      Bare("POST", "/api", FALSE, "multipart", TRUE, FALSE),
      Post("urlencoded", TRUE, FALSE, GoodGen, <<"n1">>),
      Post("multipart", TRUE, TRUE, GoodGen, <<>>),
      Post("multipart", TRUE, TRUE, GoodGen, <<"n1">>),
      Post("urlencoded", TRUE, TRUE, GarbageGen, <<"n1">>),
      Post("urlencoded", TRUE, TRUE, ShortGen, <<"n1">>),
      Post("urlencoded", TRUE, TRUE, BadFieldGen, <<"n1">>),
      Post("urlencoded", TRUE, TRUE, RangeGen, <<"n1">>) }
    \cup { Post("urlencoded", TRUE, TRUE, GoodGen, n) : n \in NodeFields }
    \cup { Post("multipart", TRUE, FALSE, GoodGen, n) : n \in NodeFields }

\* The payloads the parser is exercised on, each in a standard form POST.
ParserRequests ==
    { Post("urlencoded", TRUE, TRUE, g, <<"n1">>) : g \in WellFormedGens \cup DeviantGens }

(***************************************************************************)
(* net/http as the handlers use it.                                        *)
(***************************************************************************)
NoFields == [data |-> <<>>, node |-> <<>>]
BodyFields(r) == [data |-> r.data, node |-> r.node]

\* r.ParseForm(): the error it returns and r.Form.  A urlencoded body is
\* decoded into r.Form; a multipart body is left to ParseMultipartForm and
\* is no error; a missing body, a Content-Type that does not parse, a body
\* that does not decode and a query that does not parse are errors.
ParseForm(r) ==
    [err  |-> r.bodyNil \/ r.ct = "invalid" \/ (r.ct = "urlencoded" /\ ~r.bodyOK)
              \/ ~r.queryOK,
     Form |-> IF ~r.bodyNil /\ r.ct = "urlencoded" /\ r.bodyOK
              THEN BodyFields(r) ELSE NoFields]

\* r.FormValue(key) after ParseForm: the first value of r.Form[key], or "".
\* r.Form is already set, so FormValue does not parse a multipart body.
FormValue(form, key, empty) == IF Len(form[key]) > 0 THEN form[key][1] ELSE empty

\* r.ParseMultipartForm(r.ContentLength): r.MultipartForm afterwards, nil
\* unless the request is multipart/form-data and its body parses.
ParseMultipartForm(r) ==
    IF r.ct = "multipart" /\ r.bodyOK
    THEN [nil |-> FALSE, Value |-> BodyFields(r)]
    ELSE [nil |-> TRUE, Value |-> NoFields]

\* mux.HandleFunc("/", getRoot); mux.HandleFunc("/api", postSensorData):
\* "/api" matches that path alone, "/" matches every other path.
Mux(path) == IF path = "/api" THEN "postSensorData" ELSE "getRoot"

\* The base context of every request (src/main.go 216-224): the database
\* client under key "db", the write handle under key "writeApi", both made
\* once in main.
BaseContext == [db |-> "client", writeApi |-> "writeApiBlocking"]

\* What a handler has done when it returns, panics, or calls WritePoint.
\*   kind    "respond", "panic" (the fault leaves the handler; net/http
\*           recovers it and closes the connection), or "write"
\*   status  the response status (0: no response is sent)
Outcome(kind, status, body, node, data, parserRan, parsed, points) ==
    [kind |-> kind, status |-> status, body |-> body, node |-> node,
     data |-> data, parserRan |-> parserRan, parsed |-> parsed, points |-> points]

NoParse ==
    [timestamp |-> 0, hum |-> Zero, temp |-> Zero, x |-> Zero, y |-> Zero,
     z |-> Zero, err |-> "nil"]

Respond(status, body) == Outcome("respond", status, body, "", <<>>, FALSE, NoParse, <<>>)
Panic == Outcome("panic", 0, "", "", <<>>, FALSE, NoParse, <<>>)

\* http.Error(w, msg, code)
Error(msg, code) == Respond(code, msg)

StatusOK == 200
StatusBadRequest == 400
StatusNotFound == 404

getRootAnyMethod(r) ==
    IF r.path # "/" THEN Error("404 not found.\n", StatusNotFound)
    ELSE Respond(StatusOK, "Welcome")

\* getRoot (src/main.go 238-248)
getRoot(r) ==
    IF r.path # "/" THEN Error("404 not found.\n", StatusNotFound)
    ELSE IF r.method # "GET" THEN Error("Method is not supported.\n", StatusNotFound)
    ELSE Respond(StatusOK, "Welcome")

PointsAirOnly(node, p) ==
    << [measurement |-> "air", location |-> node,
        fields |-> [humidity |-> p.hum, temperature |-> p.temp],
        time |-> p.timestamp] >>

\* influxdb2.NewPointWithMeasurement(..).AddTag("location", node).AddField..
\* .SetTime(time.Unix(timestamp, 0)): the two records of one submission.
Points(node, p) ==
    << [measurement |-> "air", location |-> node,
        fields |-> [humidity |-> p.hum, temperature |-> p.temp],
        time |-> p.timestamp],
       [measurement |-> "accelerometer", location |-> node,
        fields |-> [x |-> p.x, y |-> p.y, z |-> p.z],
        time |-> p.timestamp] >>

\* The form fields postSensorData ends up with (src/main.go 287-300):
\* "return" (ParseForm failed on a nil body), "panic" (r.MultipartForm is
\* nil, or a field has no value to index), or "ok" with data and node.
Fields(r) ==
    LET pf == ParseForm(r)
        mf == ParseMultipartForm(r)
    IN  IF pf.err
        THEN IF r.bodyNil THEN [kind |-> "return", data |-> <<>>, node |-> ""]
             ELSE IF mf.nil \/ Len(mf.Value.data) = 0 \/ Len(mf.Value.node) = 0
             THEN [kind |-> "panic", data |-> <<>>, node |-> ""]
             ELSE [kind |-> "ok", data |-> mf.Value.data[1], node |-> mf.Value.node[1]]
        ELSE [kind |-> "ok", data |-> FormValue(pf.Form, "data", <<>>),
              node |-> FormValue(pf.Form, "node", "")]

DefaultNode(node) == IF node = "" THEN "unknown" ELSE node

\* postSensorData (src/main.go 272-342) up to its return, its panic, or its
\* call of writeApi.WritePoint.
postSensorData(r) ==
    IF r.path # "/api" THEN Error("404 not found.\n", StatusNotFound)
    ELSE IF r.method # "POST" THEN Error("Method is not supported.\n", StatusNotFound)
    ELSE IF "writeApi" \notin DOMAIN BaseContext THEN Panic
    ELSE LET f == Fields(r)
         IN  IF f.kind = "return" THEN Respond(StatusOK, "")
             ELSE IF f.kind = "panic" THEN Panic
             ELSE LET node   == DefaultNode(f.node)
                      data   == Replace(f.data)
                      parsed == parseData(data)
                  IN  IF parsed.err # "nil"
                      THEN Outcome("respond", StatusBadRequest, "400 - Bad request data",
                                   node, data, TRUE, parsed, <<>>)
                      ELSE Outcome("write", 0, "", node, data, TRUE, parsed,
                                   Points(node, parsed))

AfterWriteSurfacing(o, failed) ==
    IF failed
    THEN [o EXCEPT !.kind = "respond", !.status = 500, !.body = "500 - Something bad happened!"]
    ELSE [o EXCEPT !.kind = "respond", !.status = StatusOK, !.body = "{\"status\":\"ok\"}"]

\* The end of postSensorData (src/main.go 331-341): the error of WritePoint
\* is logged, and the response is the marshalled {"status":"ok"}.
AfterWrite(o, failed) ==
    [o EXCEPT !.kind = "respond", !.status = StatusOK, !.body = "{\"status\":\"ok\"}"]

(***************************************************************************)
(* The earlier revision of postSensorData (src/main.go 93-156): no         *)
(* multipart fallback, and the payload is split and indexed inline, with   *)
(* no recover() around it.                                                 *)
(***************************************************************************)
postSensorDataInline(r) ==
    IF r.path # "/api" THEN Error("404 not found.\n", StatusNotFound)
    ELSE IF r.method # "POST" THEN Error("Method is not supported.\n", StatusNotFound)
    ELSE IF "writeApi" \notin DOMAIN BaseContext THEN Panic
    ELSE LET pf == ParseForm(r)
         IN  IF pf.err THEN Respond(StatusOK, "")
             ELSE LET node    == DefaultNode(FormValue(pf.Form, "node", ""))
                      data    == Replace(FormValue(pf.Form, "data", <<>>))
                      bodyArr == Split(data, "|")
                      acc     == IF Len(bodyArr) >= 4 THEN Split(bodyArr[4], ",") ELSE <<>>
                  IN  IF Len(bodyArr) < 4 \/ Len(acc) < 3
                      THEN [Panic EXCEPT !.node = node, !.data = data]
                      ELSE LET parsed ==
                                 [timestamp |-> ParseInt(bodyArr[1]).val,
                                  hum  |-> ParseFloat(bodyArr[2]).val,
                                  temp |-> ParseFloat(bodyArr[3]).val,
                                  x    |-> ParseFloat(acc[1]).val,
                                  y    |-> ParseFloat(acc[2]).val,
                                  z    |-> ParseFloat(acc[3]).val,
                                  err  |-> "nil"]
                           IN  Outcome("write", 0, "", node, data, FALSE, parsed,
                                       Points(node, parsed))

(***************************************************************************)
(* State.                                                                  *)
(*   reqs   one entry per connection: where its goroutine is (pc), the     *)
(*          request it serves (in), what the handler has done (out), and   *)
(*          whether WritePoint returned an error that was logged           *)
(*   calls  the calls of writeApi.WritePoint made on the shared write      *)
(*          handle, in the order they were made, each with its caller      *)
(***************************************************************************)
VARIABLES reqs, calls

vars == <<reqs, calls>>

Conns == 1..MaxReqs

Idle == [pc |-> "idle", in |-> NoRequestIn, out |-> Respond(0, ""), logged |-> FALSE]

Init ==
    /\ reqs = [i \in Conns |-> Idle]
    /\ calls = <<>>

\* The server accepts a connection and reads a request from it.
Accept(i) ==
    /\ reqs[i].pc = "idle"
    /\ \E r \in Requests : reqs' = [reqs EXCEPT ![i].pc = "recv", ![i].in = r]
    /\ UNCHANGED calls

\* The mux dispatches to getRoot, which runs to its end.
ServeGetRoot(i) ==
    /\ reqs[i].pc = "recv"
    /\ Mux(reqs[i].in.path) = "getRoot"
    /\ reqs' = [reqs EXCEPT ![i].pc = "done", ![i].out = getRoot(reqs[i].in)]
    /\ UNCHANGED calls

DispatchLossy(i, o) ==
    /\ reqs' = [reqs EXCEPT ![i].pc = IF o.kind = "write" THEN "writing" ELSE "done",
                            ![i].out = o]
    /\ calls' = IF o.kind = "write"
                THEN <<[caller |-> i, handle |-> BaseContext.writeApi,
                        points |-> o.points]>>
                ELSE calls

\* A handler of /api has run up to its return, its panic, or its call of
\* writeApi.WritePoint(ctx, p1, p2), which blocks.
Dispatch(i, o) ==
    /\ reqs' = [reqs EXCEPT ![i].pc = IF o.kind = "write" THEN "writing" ELSE "done",
                            ![i].out = o]
    /\ calls' = IF o.kind = "write"
                THEN Append(calls, [caller |-> i, handle |-> BaseContext.writeApi,
                                    points |-> o.points])
                ELSE calls

ServePostSensorData(i) ==
    /\ reqs[i].pc = "recv"
    /\ Mux(reqs[i].in.path) = "postSensorData"
    /\ Dispatch(i, postSensorData(reqs[i].in))

ServePostSensorDataInline(i) ==
    /\ reqs[i].pc = "recv"
    /\ Mux(reqs[i].in.path) = "postSensorData"
    /\ Dispatch(i, postSensorDataInline(reqs[i].in))

\* WritePoint returns, with an error or without; the handler runs to its end.
WritePointReturns(i) ==
    /\ reqs[i].pc = "writing"
    /\ \E failed \in BOOLEAN :
         reqs' = [reqs EXCEPT ![i].pc = "done",
                              ![i].out = AfterWrite(reqs[i].out, failed),
                              ![i].logged = failed]
    /\ UNCHANGED calls

Next ==
    \E i \in Conns :
        \/ Accept(i)
        \/ ServeGetRoot(i)
        \/ ServePostSensorData(i)
        \/ WritePointReturns(i)

Spec == Init /\ [][Next]_vars

\* The server built from the earlier revision.
NextInline ==
    \E i \in Conns :
        \/ Accept(i)
        \/ ServeGetRoot(i)
        \/ ServePostSensorDataInline(i)
        \/ WritePointReturns(i)

SpecInline == Init /\ [][NextInline]_vars

\* The handler and its parser on every payload of ParserRequests: one
\* connection has read the request, the others stay idle.
InitParse ==
    /\ \E r \in ParserRequests :
         reqs = [i \in Conns |-> IF i = 1 THEN [Idle EXCEPT !.pc = "recv", !.in = r]
                                 ELSE Idle]
    /\ calls = <<>>

NextParse ==
    \E i \in Conns :
        \/ ServePostSensorData(i)
        \/ WritePointReturns(i)

SpecParse == InitParse /\ [][NextParse]_vars

(***************************************************************************)
(* Vocabulary of the properties.                                           *)
(***************************************************************************)
Handled(i) == reqs[i].pc \in {"writing", "done"}
Finished(i) == reqs[i].pc = "done"

\* The calls of WritePoint made on behalf of connection i's request.
CallsOf(i) == SelectSeq(calls, LAMBDA c : c.caller = i)

RECURSIVE RecordCount(_)
RecordCount(cs) == IF Len(cs) = 0 THEN 0 ELSE Len(cs[1].points) + RecordCount(Tail(cs))

IsIngest(r) == r.method = "POST" /\ r.path = "/api"

\* The body is a standard (urlencoded) form that decodes, with a query that
\* parses.
StandardForm(r) == ~r.bodyNil /\ r.ct = "urlencoded" /\ r.bodyOK /\ r.queryOK

\* The body is a multipart form that decodes, with a query that parses.
MultipartForm(r) == ~r.bodyNil /\ r.ct = "multipart" /\ r.bodyOK /\ r.queryOK

HasData(r) == Len(r.data) = 1

\* The payload has its 4 '|'-segments and its 3 ','-segments.
Structured(g) == g.np >= 4 /\ g.nc >= 3

\* A valid ingestion request: POST /api, standard form, structured payload.
Valid(r) == IsIngest(r) /\ StandardForm(r) /\ HasData(r) /\ Structured(r.gen)

OkJson == "{\"status\":\"ok\"}"

\* The value a token denotes when it is a number in another spelling.
TokenFloat(tok) ==
    CASE tok = <<"+", "5">> -> Fin(5, 0)
      [] tok = <<"0", "0", "7">> -> Fin(7, 0)
      [] tok = <<"1", ".", "5", "0">> -> Fin(15, -1)
      [] tok = <<".", "5">> -> Fin(5, -1)
      [] tok = <<"5", ".">> -> Fin(5, 0)
      [] OTHER -> Zero

\* The six fields of a parse result, in the order of the payload.
FieldsOf(p) == <<p.timestamp, p.hum, p.temp, p.x, p.y, p.z>>

ZeroAt(pos) == IF pos = 1 THEN 0 ELSE Zero

\* The nearest representable value of an out-of-range token.
SaturatedAt(pos, tok) ==
    IF pos = 1 THEN (IF tok[1] = "-" THEN MinInt ELSE MaxInt)
    ELSE Inf(IF tok[1] = "-" THEN -1 ELSE 1)

\* The location tag the spec gives a request.
ExpectedNode(r) == IF Len(r.node) = 0 \/ r.node[1] = "" THEN "unknown" ELSE r.node[1]

(***************************************************************************)
(* C1: every request hands the write call exactly 0 or exactly 2 records:  *)
(* at most one call of WritePoint is made on its behalf, that call carries *)
(* the "air" record and the "accelerometer" record together, and only the  *)
(* ingestion route makes one.                                              *)
(***************************************************************************)
C1_ZeroOrTwoRecords ==
    \A i \in Conns :
        /\ Len(CallsOf(i)) <= 1
        /\ RecordCount(CallsOf(i)) \in {0, 2}
        /\ \A k \in 1..Len(CallsOf(i)) :
             /\ Len(CallsOf(i)[k].points) = 2
             /\ CallsOf(i)[k].points[1].measurement = "air"
             /\ CallsOf(i)[k].points[2].measurement = "accelerometer"
             /\ IsIngest(reqs[i].in)

C1_Witness ==
    \E i, j \in Conns :
        /\ Finished(i) /\ RecordCount(CallsOf(i)) = 2
        /\ Finished(j) /\ IsIngest(reqs[j].in) /\ RecordCount(CallsOf(j)) = 0

(***************************************************************************)
(* C2: when parseData fails on the sanitized data of a POST /api request,  *)
(* the response is 400 with a non-empty body and no write call is made;    *)
(* data="garbage" in a standard form is such a request.                    *)
(***************************************************************************)
C2_ParseFailureIs400 ==
    \A i \in Conns :
        /\ (Handled(i) /\ reqs[i].out.parserRan /\ reqs[i].out.parsed.err # "nil")
              => /\ Finished(i)
                 /\ reqs[i].out.status = 400
                 /\ reqs[i].out.body # ""
                 /\ CallsOf(i) = <<>>
        /\ (Handled(i) /\ IsIngest(reqs[i].in) /\ StandardForm(reqs[i].in)
               /\ reqs[i].in.gen = GarbageGen /\ HasData(reqs[i].in))
              => /\ reqs[i].out.parserRan
                 /\ reqs[i].out.parsed.err # "nil"

C2_Witness ==
    \E i \in Conns :
        /\ Finished(i)
        /\ reqs[i].in.gen = GarbageGen /\ HasData(reqs[i].in)
        /\ reqs[i].out.data = <<"g", "a", "r", "b", "a", "g", "e">>
        /\ reqs[i].out.status = 400

(***************************************************************************)
(* C3: a sanitized payload with fewer than 4 '|'-segments, or fewer than 3 *)
(* ','-segments in the 4th, ends in a parse failure answered with 400; the *)
(* index out of range never leaves the handler as a panic.                 *)
(***************************************************************************)
C3_MalformedStructureIsParseFailure ==
    \A i \in Conns :
        (Finished(i) /\ IsIngest(reqs[i].in) /\ StandardForm(reqs[i].in)
            /\ HasData(reqs[i].in) /\ ~Structured(reqs[i].in.gen))
           => /\ reqs[i].out.kind # "panic"
              /\ reqs[i].out.status = 400

\* C3 for parseData alone (src/main.go 250-270): the deferred recover()
\* turns every such payload into err.
C3_parseDataRecovers ==
    \A i \in Conns :
        (Handled(i) /\ ~Structured(reqs[i].in.gen))
           => /\ reqs[i].out.parserRan
              /\ reqs[i].out.parsed.err # "nil"
              /\ reqs[i].out.kind = "respond"

ExpectedPoints(r) ==
    << [measurement |-> "air", location |-> ExpectedNode(r),
        fields |-> [humidity |-> r.gen.vals[2], temperature |-> r.gen.vals[3]],
        time |-> r.gen.vals[1]],
       [measurement |-> "accelerometer", location |-> ExpectedNode(r),
        fields |-> [x |-> r.gen.vals[4], y |-> r.gen.vals[5], z |-> r.gen.vals[6]],
        time |-> r.gen.vals[1]] >>

C6_WriteErrorOnlyLogged ==
    \A i \in Conns :
        reqs[i].logged
           => /\ Finished(i)
              /\ reqs[i].out.status = 200
              /\ reqs[i].out.body = OkJson
              /\ Len(CallsOf(i)) = 1
              /\ \A j \in Conns : reqs[j].pc = "idle" => ENABLED Accept(j)

\* A write failed for one request, and a later request was accepted and
\* answered.
C6_Witness ==
    \E i, j \in Conns :
        /\ reqs[i].logged /\ Finished(i) /\ reqs[i].out.status = 200
        /\ i # j /\ Finished(j) /\ Valid(reqs[j].in) /\ ~reqs[j].logged
        /\ calls[1].caller = i

(***************************************************************************)
(* C7: a valid ingestion request, in standard form or in multipart form,   *)
(* whose node is blank or absent has both its records tagged "unknown";    *)
(* with another node both records carry that node.                         *)
(***************************************************************************)
C7_DefaultNode ==
    \A i \in Conns :
        LET r == reqs[i].in
        IN  (Finished(i) /\ IsIngest(r) /\ (StandardForm(r) \/ MultipartForm(r))
                /\ HasData(r) /\ Structured(r.gen))
               => /\ Len(CallsOf(i)) = 1
                  /\ CallsOf(i)[1].points[1].location = ExpectedNode(r)
                  /\ CallsOf(i)[1].points[2].location = ExpectedNode(r)

\* C7 for the standard form alone, and for every request that reaches the
\* write: the tag is "unknown" for a blank or absent node.
C7_DefaultNodeWhenWritten ==
    \A k \in 1..Len(calls) :
        /\ calls[k].points[1].location = ExpectedNode(reqs[calls[k].caller].in)
        /\ calls[k].points[2].location = ExpectedNode(reqs[calls[k].caller].in)

(***************************************************************************)
(* C8: round trip.  A well-formed payload "<ts>|<h>|<t>|<x>,<y>,<z>" of    *)
(* valid numerics is parsed into exactly its six values, each in its own   *)
(* position, with no error.                                                *)
(***************************************************************************)
\* The numbers a generator's payload spells, field by field.
Spelled(g) ==
    [p \in 1..6 |->
        IF g.pos # p THEN g.vals[p]
        ELSE IF p = 1 THEN TokenFloat(g.tok).m
        ELSE TokenFloat(g.tok)]

\* Every field of the payload is a valid numeric of its kind.
ValidNumerics(g) ==
    \/ g.pos = 0
    \/ g.pos = 1 /\ g.tok \in SpelledTokens
    \/ g.pos > 1 /\ g.tok \in SpelledTokens \cup FloatOnlyTokens

C8_RoundTrip ==
    \A i \in Conns :
        LET g == reqs[i].in.gen
        IN  (Handled(i) /\ g.np = 4 /\ g.nc = 3 /\ ValidNumerics(g))
               => /\ reqs[i].out.parserRan
                  /\ reqs[i].out.parsed.err = "nil"
                  /\ FieldsOf(reqs[i].out.parsed) = Spelled(g)

C8_Witness ==
    \E i \in Conns :
        /\ Handled(i) /\ reqs[i].in.gen.pos = 0 /\ reqs[i].in.gen.ws
        /\ reqs[i].out.parsed.err = "nil"
        /\ FieldsOf(reqs[i].out.parsed)
             = <<MinInt, Fin(15, -1), Fin(-305, -2), Zero, Fin(-305, -2), Fin(15, -1)>>

(***************************************************************************)
(* C9: when standard form parsing fails and the body is present, the       *)
(* handler falls back to the multipart form and the request ends in one of *)
(* the documented responses (400, or the write and 200), never in a fault  *)
(* that leaves the handler.                                                *)
(***************************************************************************)
C9_FallbackEndsInResponse ==
    \A i \in Conns :
        (Finished(i) /\ IsIngest(reqs[i].in) /\ ~reqs[i].in.bodyNil
            /\ ParseForm(reqs[i].in).err)
           => /\ reqs[i].out.kind # "panic"
              /\ reqs[i].out.status \in {200, 400}

(***************************************************************************)
(* C10: in a structured payload, a field whose numeric conversion fails,   *)
(* out of range included, is taken as zero: no error, the other fields     *)
(* keep their values, and the request goes on to the write and 200.        *)
(***************************************************************************)
\* The conversion of the replaced field fails.
ConversionFails(g) ==
    /\ g.pos > 0
    /\ g.tok \in SyntaxTokens \cup RangeTokens \cup (IF g.pos = 1 THEN FloatOnlyTokens ELSE {})

OthersKept(i) ==
    \A p \in 1..6 :
        p # reqs[i].in.gen.pos => FieldsOf(reqs[i].out.parsed)[p] = reqs[i].in.gen.vals[p]

GoesOnToWrite(i) ==
    /\ reqs[i].out.parsed.err = "nil"
    /\ Len(CallsOf(i)) = 1
    /\ Finished(i) => (reqs[i].out.status = 200 /\ reqs[i].out.body = OkJson)

C10_ConversionFailureIsZero ==
    \A i \in Conns :
        LET g == reqs[i].in.gen
        IN  (Handled(i) /\ Structured(g) /\ ConversionFails(g))
               => /\ FieldsOf(reqs[i].out.parsed)[g.pos] = ZeroAt(g.pos)
                  /\ OthersKept(i)
                  /\ GoesOnToWrite(i)

\* C10 as amended: a field that is not a number is taken as zero, a field
\* that is a number out of range is taken as the nearest representable
\* value (the largest or smallest timestamp, plus or minus infinity).
C10_SyntaxZeroRangeSaturated ==
    \A i \in Conns :
        LET g == reqs[i].in.gen
        IN  (Handled(i) /\ Structured(g) /\ ConversionFails(g))
               => /\ FieldsOf(reqs[i].out.parsed)[g.pos]
                       = IF g.tok \in RangeTokens THEN SaturatedAt(g.pos, g.tok)
                         ELSE ZeroAt(g.pos)
                  /\ OthersKept(i)
                  /\ GoesOnToWrite(i)

C10_Witness ==
    \E i \in Conns :
        /\ Finished(i) /\ reqs[i].in.gen.pos = 1
        /\ reqs[i].in.gen.tok = <<"9", "9", "9", "9", "9", "9">>
        /\ reqs[i].out.parsed.timestamp = MaxInt
        /\ reqs[i].out.status = 200

====
